---- MODULE Spec2Model ----
(***************************************************************************)
(* A model of src/src/Semaphore.ts: the counting Semaphore, the            *)
(* StackedSemaphore turnstile, the PhasedSemaphore generations and the     *)
(* lanes of a ReadWriteSemaphore.                                          *)
(*                                                                         *)
(* JavaScript runs one synchronous block at a time.  Every action below is *)
(* one such block: a call made by the user (acquire, release, lock,        *)
(* unlock) up to its first suspended await, or the continuation of an      *)
(* await whose promise has been resolved.                                  *)
(***************************************************************************)
EXTENDS Integers, Sequences, FiniteSets, TLC

\* ------------------------------------------------------------------ bounds
MaxCount == 2        \* largest capacity a Semaphore is constructed with
MaxCalls == 5        \* acquire() calls issued on the Semaphore
MaxExtra == 1        \* release() calls beyond the grants (misuse)
MaxOps == 6          \* calls issued on the lanes of a ReadWriteSemaphore
MaxPhasedOps == 4    \* calls issued on a PhasedSemaphore used directly
MaxUses == 3         \* use() calls issued on the Semaphore
MaxStackedOps == 4   \* acquire() calls issued on a StackedSemaphore used directly
MaxPoolOps == 4      \* acquire() calls issued on a SemaphorePool

\* --------------------------------------------------------------- numbers
\* The number Infinity (default count of a lane): Infinity - 1 = Infinity.
Infinity == 1000000

Dec(x) == IF x = Infinity THEN Infinity ELSE x - 1

Inc(x) == IF x = Infinity THEN Infinity ELSE x + 1

\* ------------------------------------------------------------- Semaphore
\* class Semaphore: queue = [], count, acquired = 0
NewSemaphore(count) == [count |-> count, acquired |-> 0, queue |-> <<>>]

\* get isLocked
SemaphoreIsLocked(s) == s.count <= 0

\* acquire() with the bound of one bug: a call is granted while count >= -1.
SemaphoreAcquire_OffByOne(s, future) ==
    LET count == Dec(s.count) IN
    [sem      |-> [count    |-> count,
                   acquired |-> s.acquired + 1,
                   queue    |-> IF count >= -1 THEN s.queue
                                ELSE Append(s.queue, future)],
     resolved |-> count >= -1]

\* acquire(): count--, acquired++; when count >= 0 the promise returned is
\* already resolved, otherwise a Future (named `future`) is pushed on the
\* queue.  Yields the semaphore after the call and whether the promise is
\* resolved.
SemaphoreAcquire(s, future) ==
    LET count == Dec(s.count) IN
    [sem      |-> [count    |-> count,
                   acquired |-> s.acquired + 1,
                   queue    |-> IF count >= 0 THEN s.queue
                                ELSE Append(s.queue, future)],
     resolved |-> count >= 0]

\* release() that resolves the newest future of the queue (pop, not shift).
SemaphoreRelease_Pop(s) ==
    IF Len(s.queue) > 0
    THEN [sem      |-> [count    |-> Dec(Inc(s.count)),
                        acquired |-> (s.acquired - 1) + 1,
                        queue    |-> SubSeq(s.queue, 1, Len(s.queue) - 1)],
          resolved |-> {s.queue[Len(s.queue)]}]
    ELSE [sem      |-> [count    |-> Inc(s.count),
                        acquired |-> s.acquired - 1,
                        queue    |-> s.queue],
          resolved |-> {}]

\* release(): count++, acquired--; when a future is queued, count-- and
\* acquired++ again, and queue.shift() is resolved.  Yields the semaphore
\* after the call and the set of futures it resolved (none or one).
SemaphoreRelease(s) ==
    IF Len(s.queue) > 0
    THEN [sem      |-> [count    |-> Dec(Inc(s.count)),
                        acquired |-> (s.acquired - 1) + 1,
                        queue    |-> Tail(s.queue)],
          resolved |-> {Head(s.queue)}]
    ELSE [sem      |-> [count    |-> Inc(s.count),
                        acquired |-> s.acquired - 1,
                        queue    |-> s.queue],
          resolved |-> {}]

\* ------------------------------------------------------ StackedSemaphore
\* The key null; an unset lastKey (undefined) compares equal to it under ==.
Null == "null"

\* No promise: the value of an unset or erased lastAcquired.
NoPromise == <<>>

\* The value NaN, which `undefined - 1` yields; NaN - 1 and NaN + 1 are NaN
\* and NaN == 0 is false.
NaN == -1000000

DecN(x) == IF x = NaN THEN NaN ELSE x - 1

IncN(x) == IF x = NaN THEN NaN ELSE x + 1

\* class StackedSemaphore: semaphore = new Semaphore( 1 ), counts = [],
\* lastAcquired and lastKey unset.
NewStackedSemaphore ==
    [semaphore    |-> NewSemaphore(1),
     counts       |-> <<>>,
     lastAcquired |-> NoPromise,
     lastKey      |-> Null]

\* isLast( blocker )
StackedIsLast(st, blocker) == st.lastKey = blocker

\* Whether promise p, returned by this.semaphore.acquire(), is resolved: its
\* future is no longer in the queue of the semaphore.
StackedResolved(st, p) ==
    \A i \in 1..Len(st.semaphore.queue) : st.semaphore.queue[i] # p

\* acquire( key ) that never joins the last run: every call pushes a run and
\* acquires the semaphore.
StackedAcquire_NeverJoins(st, key, p) ==
    [st      |-> [semaphore    |-> SemaphoreAcquire(st.semaphore, p).sem,
                  counts       |-> Append(st.counts, 1),
                  lastAcquired |-> p,
                  lastKey      |-> key],
     promise |-> p]

\* acquire( key ) up to its await: a call with the key of the last run joins
\* it (counts[ last ]++) and awaits lastAcquired; any other call pushes 1 on
\* counts, acquires the semaphore (p names the promise returned) and awaits
\* that.  Yields the StackedSemaphore after the call and the promise awaited.
StackedAcquire(st, key, p) ==
    IF st.lastAcquired # NoPromise /\ key = st.lastKey
    THEN [st      |-> [st EXCEPT !.counts[Len(st.counts)] = IncN(@)],
          promise |-> st.lastAcquired]
    ELSE [st      |-> [semaphore    |-> SemaphoreAcquire(st.semaphore, p).sem,
                       counts       |-> Append(st.counts, 1),
                       lastAcquired |-> p,
                       lastKey      |-> key],
          promise |-> p]

\* release() that releases the semaphore on every call and drops the oldest
\* run without counting it down.
StackedRelease_EveryCall(st) ==
    IF Len(st.counts) = 0
    THEN [st EXCEPT !.counts = <<NaN>>]
    ELSE [semaphore    |-> SemaphoreRelease(st.semaphore).sem,
          counts       |-> Tail(st.counts),
          lastAcquired |-> IF Len(st.counts) = 1 THEN NoPromise
                           ELSE st.lastAcquired,
          lastKey      |-> IF Len(st.counts) = 1 THEN Null ELSE st.lastKey]

\* release(): counts[ 0 ]-- (on an empty counts this stores NaN at index 0);
\* when it reaches 0 the semaphore is released and the run removed, and when
\* no run is left lastKey and lastAcquired are erased.
StackedRelease(st) ==
    IF Len(st.counts) = 0
    THEN [st EXCEPT !.counts = <<NaN>>]
    ELSE IF DecN(st.counts[1]) = 0
    THEN [semaphore    |-> SemaphoreRelease(st.semaphore).sem,
          counts       |-> Tail(st.counts),
          lastAcquired |-> IF Len(st.counts) = 1 THEN NoPromise
                           ELSE st.lastAcquired,
          lastKey      |-> IF Len(st.counts) = 1 THEN Null ELSE st.lastKey]
    ELSE [st EXCEPT !.counts[1] = DecN(@)]

\* ------------------------------------------------------- PhasedSemaphore
\* class PhasedSemaphore: semaphores = [ new Semaphore( count ) ], available.
\* `gens` holds every Semaphore created so far (a generation is named by its
\* index in gens); `semaphores` is the array of the generations still kept.
NewPhasedSemaphore(count) ==
    [count      |-> count,
     gens       |-> <<NewSemaphore(count)>>,
     semaphores |-> <<1>>,
     available  |-> NewStackedSemaphore]

\* lock( blocker ): a blocker that is not the last key pushes a new
\* Semaphore; then available.acquire( blocker ), p naming its promise.
PhasedLock(ph, blocker, p) ==
    LET pushed == IF ~StackedIsLast(ph.available, blocker)
                  THEN [ph EXCEPT
                          !.gens = Append(@, NewSemaphore(ph.count)),
                          !.semaphores = Append(@, Len(ph.gens) + 1)]
                  ELSE ph
        acq == StackedAcquire(pushed.available, blocker, p)
    IN  [ph |-> [pushed EXCEPT !.available = acq.st], promise |-> acq.promise]

\* unlock(): available.release(), then the oldest generation is dropped when
\* a newer one exists and its acquired is 0.
PhasedUnlock(ph) ==
    LET rel == [ph EXCEPT !.available = StackedRelease(@)] IN
    IF Len(rel.semaphores) > 1 /\ rel.gens[rel.semaphores[1]].acquired = 0
    THEN [rel EXCEPT !.semaphores = Tail(@)]
    ELSE rel

\* acquire(): the generation the call picks, semaphores[ length - 1 ].
PhasedNewest(ph) == ph.semaphores[Len(ph.semaphores)]

\* acquire() up to its first await.  When the newest generation has
\* acquired === 0 the call takes a ticket, available.acquire( null ), and
\* awaits it (sem.acquire() comes later, in PhasedAcquireStep); otherwise it
\* calls sem.acquire() at once.  r names the future of sem.acquire(), p the
\* promise of the ticket.
PhasedAcquire(ph, r, p) ==
    LET sem == PhasedNewest(ph) IN
    IF ph.gens[sem].acquired = 0
    THEN LET acq == StackedAcquire(ph.available, Null, p) IN
         [ph       |-> [ph EXCEPT !.available = acq.st],
          sem      |-> sem,
          ticket   |-> acq.promise,
          acquired |-> FALSE]
    ELSE [ph       |-> [ph EXCEPT !.gens[sem] = SemaphoreAcquire(@, r).sem],
          sem      |-> sem,
          ticket   |-> NoPromise,
          acquired |-> TRUE]

\* acquire() after the ticket is resolved: `await sem.acquire()` on the
\* generation picked when acquire() was called.
PhasedAcquireStep(ph, r, sem) ==
    [ph EXCEPT !.gens[sem] = SemaphoreAcquire(@, r).sem]

\* release(): semaphores[ 0 ].release(), available.release(), and the oldest
\* generation is dropped when its acquired is 0 and a newer one exists.
PhasedRelease(ph) ==
    LET sem == ph.semaphores[1]
        rel == [ph EXCEPT !.gens[sem] = SemaphoreRelease(@).sem,
                          !.available = StackedRelease(@)]
    IN  IF rel.gens[sem].acquired = 0 /\ Len(rel.semaphores) > 1
        THEN [rel EXCEPT !.semaphores = Tail(@)]
        ELSE rel

\* ---------------------------------------------------- StateLaneSemaphore
\* The lanes of a ReadWriteSemaphore: [ 'read', [], readCount ] and
\* [ 'write', [ 'read' ], 1 ].
LaneNames == {"read", "write"}

\* blocks of a lane
LaneBlocks(name) == IF name = "write" THEN <<"read">> ELSE <<>>

\* A ReadWriteSemaphore whose write lane is given the count 2.
NewReadWriteSemaphore_TwoWriters(readCount) ==
    [name \in LaneNames |->
        IF name = "read" THEN NewPhasedSemaphore(readCount)
        ELSE NewPhasedSemaphore(2)]

\* new ReadWriteSemaphore( readCount ): each lane holds a PhasedSemaphore.
NewReadWriteSemaphore(readCount) ==
    [name \in LaneNames |->
        IF name = "read" THEN NewPhasedSemaphore(readCount)
        ELSE NewPhasedSemaphore(1)]

\* acquire(): this.blocks.map( name => getLane( name ).lock( this.name ) ),
\* in the order of blocks.  P maps lane names to PhasedSemaphores.
RECURSIVE LaneLockBlocks(_, _, _, _)
LaneLockBlocks(P, names, name, r) ==
    IF names = <<>> THEN [phased |-> P, promises |-> <<>>]
    ELSE LET l == PhasedLock(P[Head(names)], name, <<r, Head(names)>>)
             rest == LaneLockBlocks([P EXCEPT ![Head(names)] = l.ph],
                                    Tail(names), name, r)
         IN  [phased |-> rest.phased, promises |-> <<l.promise>> \o rest.promises]

\* acquire() up to `await Promise.all`: semaphore.lock( null ), then
\* semaphore.acquire(), then the lock of every blocked lane, each run up to
\* its own first await.
LaneAcquire(P, name, r) ==
    LET l == PhasedLock(P[name], Null, <<r, "lock">>)
        a == PhasedAcquire(l.ph, r, <<r, "ticket">>)
        b == LaneLockBlocks([P EXCEPT ![name] = a.ph], LaneBlocks(name), name, r)
    IN  [phased |-> b.phased,
         call   |-> [op |-> "lane", lane |-> name, key |-> Null,
                     pushed |-> FALSE,
                     lock |-> l.promise, ticket |-> a.ticket,
                     blocks |-> b.promises, sem |-> a.sem,
                     acquired |-> a.acquired, state |-> "pending"]]

\* release(): blocks.map( name => getLane( name ).unlock( this.name ) )
RECURSIVE LaneUnlockBlocks(_, _)
LaneUnlockBlocks(P, names) ==
    IF names = <<>> THEN P
    ELSE LaneUnlockBlocks([P EXCEPT ![Head(names)] = PhasedUnlock(@)],
                          Tail(names))

\* release(): unlock every blocked lane, then semaphore.unlock(), then
\* semaphore.release().
LaneRelease(P, name) ==
    LET u == LaneUnlockBlocks(P, LaneBlocks(name)) IN
    [u EXCEPT ![name] = PhasedRelease(PhasedUnlock(@))]

\* The value read from a field that is declared and never assigned (the
\* booleans of the program are "true" and "false" where this value can occur).
Undefined == "undefined"

\* isLocked of a PhasedSemaphore: the field is declared (`isLocked: boolean;`)
\* and no method assigns it.
PhasedIsLocked(ph) == Undefined

\* isLocked of a lane (StateLaneSemaphore): declared and never assigned too.
LaneIsLocked(P, name) == Undefined

\* --------------------------------------------------------- SemaphorePool
\* The objects a SemaphorePool is used with.
PoolKeys == {"u", "v"}

\* No semaphore: what semaphores.get( object ) yields for an absent object.
NoSemaphore == 0

\* class SemaphorePool: semaphores = new Map(), count, autoRemove.  `sems`
\* holds every Semaphore created so far (named by its index in sems);
\* `semaphores` maps an object to its Semaphore, or to NoSemaphore.
NewSemaphorePool(count, autoRemove) ==
    [count      |-> count,
     autoRemove |-> autoRemove,
     sems       |-> <<>>,
     semaphores |-> [k \in PoolKeys |-> NoSemaphore]]

\* isLocked( key ): sem && sem.isLocked
PoolIsLocked(pl, key) ==
    /\ pl.semaphores[key] # NoSemaphore
    /\ SemaphoreIsLocked(pl.sems[pl.semaphores[key]])

\* semaphores.get( object ), a new Semaphore( this.count ) being set for the
\* object when `create` holds and it has none.
PoolGet(pl, object, create) ==
    IF pl.semaphores[object] = NoSemaphore /\ create
    THEN [pl EXCEPT !.sems = Append(@, NewSemaphore(pl.count)),
                    !.semaphores[object] = Len(pl.sems) + 1]
    ELSE pl

\* acquire( object ) where every object is given the Semaphore of "u".
PoolAcquire_Shared(pl, object, future) ==
    LET got == PoolGet(pl, "u", TRUE)
        semaphore == got.semaphores["u"]
    IN  [pool      |-> [got EXCEPT
                          !.sems[semaphore] = SemaphoreAcquire(@, future).sem],
         semaphore |-> semaphore]

\* acquire( object ) up to `await semaphore.acquire()`: the Semaphore of the
\* object is created when absent, and acquired.  Yields the pool after the
\* call and the Semaphore whose promise the call awaits.
PoolAcquire(pl, object, future) ==
    LET got == PoolGet(pl, object, TRUE)
        semaphore == got.semaphores[object]
    IN  [pool      |-> [got EXCEPT
                          !.sems[semaphore] = SemaphoreAcquire(@, future).sem],
         semaphore |-> semaphore]

\* release( object ): an absent Semaphore is created only when autoRemove is
\* off; the Semaphore, if any, is released, and deleted from the map when its
\* count is back to this.count and autoRemove is on.
PoolRelease(pl, object) ==
    LET got == PoolGet(pl, object, ~pl.autoRemove)
        semaphore == got.semaphores[object]
    IN  IF semaphore = NoSemaphore THEN got
        ELSE LET rel == [got EXCEPT !.sems[semaphore] = SemaphoreRelease(@).sem]
             IN  IF rel.sems[semaphore].count >= rel.count /\ rel.autoRemove
                 THEN [rel EXCEPT !.semaphores[object] = NoSemaphore]
                 ELSE rel

\* ------------------------------------------------------------ the calls
VARIABLES
    phased,    \* the PhasedSemaphores, by name
    calls,     \* the calls made so far, in the order they were made
    jobs       \* continuations whose promise is resolved, oldest first

asyncVars == <<phased, calls, jobs>>

VARIABLES
    stacked,   \* a StackedSemaphore used on its own
    pool       \* a SemaphorePool

keyedVars == <<stacked, pool>>

\* No call is made on the StackedSemaphore nor on the SemaphorePool.
InitKeyedIdle ==
    /\ stacked = NewStackedSemaphore
    /\ pool = NewSemaphorePool(1, TRUE)

\* The promise of a call's lock() is resolved.
LockResolved(P, c) ==
    c.lock = NoPromise \/ StackedResolved(P[c.lane].available, c.lock)

\* The ticket a call's acquire() awaits is resolved and sem.acquire() has not
\* run yet.
TicketResolved(P, c) ==
    /\ c.sem # 0
    /\ ~c.acquired
    /\ StackedResolved(P[c.lane].available, c.ticket)

\* The promise of a call's acquire() is resolved: sem.acquire() has run and
\* its future is not in the queue of that generation.
UnitResolved(P, c, r) ==
    \/ c.sem = 0
    \/ /\ c.acquired
       /\ \A i \in 1..Len(P[c.lane].gens[c.sem].queue) :
              P[c.lane].gens[c.sem].queue[i] # r

\* Every promise the call joins (Promise.all) is resolved.
AllResolved(P, c, r) ==
    /\ LockResolved(P, c)
    /\ UnitResolved(P, c, r)
    /\ \A i \in 1..Len(c.blocks) :
           StackedResolved(P[LaneBlocks(c.lane)[i]].available, c.blocks[i])

InJobs(J, j) == \E i \in 1..Len(J) : J[i] = j

RECURSIVE SortedSeq(_)
SortedSeq(S) ==
    IF S = {} THEN <<>>
    ELSE LET m == CHOOSE x \in S : \A y \in S : x <= y
         IN  <<m>> \o SortedSeq(S \ {m})

\* The continuations that the last block made runnable, in the order the
\* reactions were registered on the promises: first those of the tickets
\* (they run sem.acquire()), then those of the calls that are granted.
NewJobs(P, C, J) ==
    LET acq == {r \in 1..Len(C) :
                   TicketResolved(P, C[r]) /\ ~InJobs(J, <<"acquire", r>>)}
        grt == {r \in 1..Len(C) :
                   /\ C[r].state = "pending"
                   /\ AllResolved(P, C[r], r)
                   /\ ~InJobs(J, <<"grant", r>>)}
    IN  [i \in 1..Cardinality(acq) |-> <<"acquire", SortedSeq(acq)[i]>>]
        \o [i \in 1..Cardinality(grt) |-> <<"grant", SortedSeq(grt)[i]>>]

\* ===================================================== a single Semaphore
VARIABLES
    capacity,      \* the count the Semaphore was constructed with
    sem,           \* the Semaphore
    issued,        \* number of acquire() calls made so far; call r is the r-th
    suspended,     \* calls whose acquire() returned a pending promise
    granted,       \* calls whose promise has been resolved
    released,      \* calls that have called their release
    extra          \* release() calls made beyond the grants

semVars == <<capacity, sem, issued, suspended, granted, released, extra>>

vars == <<capacity, sem, issued, suspended, granted, released, extra,
          phased, calls, jobs, stacked, pool>>

holders == granted \ released

waiting == (1..issued) \ granted

InitSem ==
    /\ capacity \in 1..MaxCount
    /\ sem = NewSemaphore(capacity)
    /\ issued = 0
    /\ suspended = {}
    /\ granted = {}
    /\ released = {}
    /\ extra = 0

\* A task calls semaphore.acquire().
Acquire ==
    /\ issued < MaxCalls
    /\ issued' = issued + 1
    /\ sem' = SemaphoreAcquire(sem, issued + 1).sem
    /\ granted' = IF SemaphoreAcquire(sem, issued + 1).resolved
                  THEN granted \cup {issued + 1} ELSE granted
    /\ suspended' = IF SemaphoreAcquire(sem, issued + 1).resolved
                    THEN suspended ELSE suspended \cup {issued + 1}
    /\ UNCHANGED <<capacity, released, extra, asyncVars, keyedVars>>

\* A holder calls the release it was given, once.
Release(r) ==
    /\ r \in holders
    /\ sem' = SemaphoreRelease(sem).sem
    /\ granted' = granted \cup SemaphoreRelease(sem).resolved
    /\ released' = released \cup {r}
    /\ UNCHANGED <<capacity, issued, suspended, extra, asyncVars, keyedVars>>

\* Misuse: a task calls a release it has already called.
ReleaseAgain(r) ==
    /\ r \in released
    /\ extra < MaxExtra
    /\ sem' = SemaphoreRelease(sem).sem
    /\ granted' = granted \cup SemaphoreRelease(sem).resolved
    /\ extra' = extra + 1
    /\ UNCHANGED <<capacity, issued, suspended, released, asyncVars, keyedVars>>

\* No call is made on the lanes.
InitAsyncIdle ==
    /\ phased = NewReadWriteSemaphore(Infinity)
    /\ calls = <<>>
    /\ jobs = <<>>

Init == InitSem /\ InitAsyncIdle /\ InitKeyedIdle

Next ==
    \/ Acquire
    \/ \E r \in 1..MaxCalls : Release(r)

Spec == Init /\ [][Next]_vars

\* Every holder eventually calls its release.
LiveSpec == Init /\ [][Next]_vars /\ \A r \in 1..MaxCalls : WF_vars(Release(r))

NextMisuse ==
    \/ Acquire
    \/ \E r \in 1..MaxCalls : Release(r)
    \/ \E r \in 1..MaxCalls : ReleaseAgain(r)

SpecMisuse == Init /\ [][NextMisuse]_vars

\* ----------------------------------------------------- Semaphore.use( fn )
\* What the fn given to use() does: it returns a value (or a promise that is
\* fulfilled), throws before it returns, or returns a promise that is
\* rejected.
FnKinds == {"return", "throw", "reject"}

\* How fn completes: with a value or with an error.
FnCompletion(fn) == IF fn = "return" THEN "value" ELSE "error"

\* use() without the finally block: release() runs only when fn completed
\* with a value.
UseFinally_NoFinally(s, completion) ==
    IF completion = "error"
    THEN [rel      |-> [sem |-> s, resolved |-> {}],
          releases |-> 0,
          settled  |-> completion]
    ELSE [rel      |-> SemaphoreRelease(s),
          releases |-> 1,
          settled  |-> completion]

\* use(): `try { return await fn() } finally { release() }` once fn has
\* completed: release() runs, then the completion of fn becomes that of the
\* promise use() returned.
UseFinally(s, completion) ==
    [rel      |-> SemaphoreRelease(s),
     releases |-> 1,
     settled  |-> completion]

\* A task calls semaphore.use( fn ): the call runs up to
\* `await this.acquire()`.
UseCall(fn) ==
    /\ issued < MaxUses
    /\ issued' = issued + 1
    /\ sem' = SemaphoreAcquire(sem, issued + 1).sem
    /\ granted' = IF SemaphoreAcquire(sem, issued + 1).resolved
                  THEN granted \cup {issued + 1} ELSE granted
    /\ suspended' = IF SemaphoreAcquire(sem, issued + 1).resolved
                    THEN suspended ELSE suspended \cup {issued + 1}
    /\ calls' = Append(calls, [op |-> "use", fn |-> fn, state |-> "acquiring",
                               releases |-> 0, settled |-> "pending"])
    /\ UNCHANGED <<capacity, released, extra, phased, jobs, keyedVars>>

\* The finally block of call r runs, and use() completes.
UseFinish(r) ==
    LET f == UseFinally(sem, FnCompletion(calls[r].fn)) IN
    /\ sem' = f.rel.sem
    /\ granted' = granted \cup f.rel.resolved
    /\ released' = IF f.releases > 0 THEN released \cup {r} ELSE released
    /\ calls' = [calls EXCEPT ![r].state = "done",
                              ![r].releases = @ + f.releases,
                              ![r].settled = f.settled]
    /\ UNCHANGED <<capacity, issued, suspended, extra, phased, jobs, keyedVars>>

\* The continuation of `await this.acquire()` runs: fn is called.  A fn that
\* throws completes use() in the same block.
UseEnter(r) ==
    /\ r \in granted
    /\ r \in 1..Len(calls)
    /\ calls[r].state = "acquiring"
    /\ IF calls[r].fn = "throw"
       THEN UseFinish(r)
       ELSE /\ calls' = [calls EXCEPT ![r].state = "running"]
            /\ UNCHANGED <<semVars, phased, jobs, keyedVars>>

\* The promise fn returned is settled: the continuation of `await fn()` runs.
UseSettle(r) ==
    /\ r \in 1..Len(calls)
    /\ calls[r].state = "running"
    /\ UseFinish(r)

NextUse ==
    \/ \E fn \in FnKinds : UseCall(fn)
    \/ \E r \in 1..MaxUses : UseEnter(r)
    \/ \E r \in 1..MaxUses : UseSettle(r)

SpecUse == Init /\ [][NextUse]_vars

\* ================================================== a ReadWriteSemaphore
InitSemIdle ==
    /\ capacity = 1
    /\ sem = NewSemaphore(1)
    /\ issued = 0
    /\ suspended = {}
    /\ granted = {}
    /\ released = {}
    /\ extra = 0

InitRW ==
    /\ InitSemIdle
    /\ InitKeyedIdle
    /\ phased = NewReadWriteSemaphore(Infinity)
    /\ calls = <<>>
    /\ jobs = <<>>

\* A task calls read.acquire() or write.acquire().
RWAcquire(name) ==
    /\ Len(calls) < MaxOps
    /\ LET a == LaneAcquire(phased, name, Len(calls) + 1) IN
        /\ phased' = a.phased
        /\ calls' = Append(calls, a.call)
    /\ jobs' = jobs \o NewJobs(phased', calls', jobs)
    /\ UNCHANGED <<semVars, keyedVars>>

\* The continuation of `await this.available.acquire( null )` in
\* PhasedSemaphore.acquire runs: sem.acquire().
AcquireStep ==
    /\ jobs # <<>>
    /\ Head(jobs)[1] = "acquire"
    /\ LET r == Head(jobs)[2] IN
        /\ phased' = [phased EXCEPT
                        ![calls[r].lane] = PhasedAcquireStep(@, r, calls[r].sem)]
        /\ calls' = [calls EXCEPT ![r].acquired = TRUE]
    /\ jobs' = Tail(jobs) \o NewJobs(phased', calls', Tail(jobs))
    /\ UNCHANGED <<semVars, keyedVars>>

\* The continuation of the caller's `await acquire()` (or lock()) runs: the
\* caller holds its release.
Grant ==
    /\ jobs # <<>>
    /\ Head(jobs)[1] = "grant"
    /\ calls' = [calls EXCEPT ![Head(jobs)[2]].state = "granted"]
    /\ jobs' = Tail(jobs)
    /\ UNCHANGED <<phased, semVars, keyedVars>>

\* A holder calls the release of its lane, once.
RWRelease(r) ==
    /\ r \in 1..Len(calls)
    /\ calls[r].op = "lane"
    /\ calls[r].state = "granted"
    /\ phased' = LaneRelease(phased, calls[r].lane)
    /\ calls' = [calls EXCEPT ![r].state = "released"]
    /\ jobs' = jobs \o NewJobs(phased', calls', jobs)
    /\ UNCHANGED <<semVars, keyedVars>>

NextRW ==
    \/ \E name \in LaneNames : RWAcquire(name)
    \/ AcquireStep
    \/ Grant
    \/ \E r \in 1..MaxOps : RWRelease(r)

SpecRW == InitRW /\ [][NextRW]_vars

\* Resolved continuations run, and every holder eventually releases.
LiveSpecRW ==
    /\ InitRW
    /\ [][NextRW]_vars
    /\ WF_vars(AcquireStep)
    /\ WF_vars(Grant)
    /\ \A r \in 1..MaxOps : WF_vars(RWRelease(r))

\* The calls on a lane that hold it: granted and not yet released.
LaneHolders(name) ==
    {r \in 1..Len(calls) : calls[r].lane = name /\ calls[r].state = "granted"}

\* ============================================ a PhasedSemaphore used alone
\* The keys lock() is called with.
BlockerKeys == {Null, "a", "b"}

\* The counts a PhasedSemaphore is constructed with.
PhasedCounts == (1..MaxCount) \cup {Infinity}

InitPhased ==
    /\ InitSemIdle
    /\ InitKeyedIdle
    /\ \E count \in PhasedCounts :
           phased = [name \in {"phased"} |-> NewPhasedSemaphore(count)]
    /\ calls = <<>>
    /\ jobs = <<>>

\* A task calls lock( blocker ).
PhasedLockCall(blocker) ==
    /\ Len(calls) < MaxPhasedOps
    /\ LET r == Len(calls) + 1
           l == PhasedLock(phased["phased"], blocker, <<r, "lock">>) IN
        /\ phased' = [phased EXCEPT !["phased"] = l.ph]
        /\ calls' = Append(calls,
               [op |-> "lock", lane |-> "phased", key |-> blocker,
                pushed |-> ~StackedIsLast(phased["phased"].available, blocker),
                lock |-> l.promise, ticket |-> NoPromise, blocks |-> <<>>,
                sem |-> 0, acquired |-> FALSE, state |-> "pending"])
    /\ jobs' = jobs \o NewJobs(phased', calls', jobs)
    /\ UNCHANGED <<semVars, keyedVars>>

\* A task whose lock() has resolved calls unlock(), once.
PhasedUnlockCall(r) ==
    /\ r \in 1..Len(calls)
    /\ calls[r].op = "lock"
    /\ calls[r].state = "granted"
    /\ phased' = [phased EXCEPT !["phased"] = PhasedUnlock(@)]
    /\ calls' = [calls EXCEPT ![r].state = "released"]
    /\ jobs' = jobs \o NewJobs(phased', calls', jobs)
    /\ UNCHANGED <<semVars, keyedVars>>

\* A task calls acquire().
PhasedAcquireCall ==
    /\ Len(calls) < MaxPhasedOps
    /\ LET r == Len(calls) + 1
           a == PhasedAcquire(phased["phased"], r, <<r, "ticket">>) IN
        /\ phased' = [phased EXCEPT !["phased"] = a.ph]
        /\ calls' = Append(calls,
               [op |-> "acquire", lane |-> "phased", key |-> Null,
                pushed |-> FALSE,
                lock |-> NoPromise, ticket |-> a.ticket, blocks |-> <<>>,
                sem |-> a.sem, acquired |-> a.acquired, state |-> "pending"])
    /\ jobs' = jobs \o NewJobs(phased', calls', jobs)
    /\ UNCHANGED <<semVars, keyedVars>>

\* A task whose acquire() has resolved calls release(), once.
PhasedReleaseCall(r) ==
    /\ r \in 1..Len(calls)
    /\ calls[r].op = "acquire"
    /\ calls[r].state = "granted"
    /\ phased' = [phased EXCEPT !["phased"] = PhasedRelease(@)]
    /\ calls' = [calls EXCEPT ![r].state = "released"]
    /\ jobs' = jobs \o NewJobs(phased', calls', jobs)
    /\ UNCHANGED <<semVars, keyedVars>>

NextPhased ==
    \/ \E blocker \in BlockerKeys : PhasedLockCall(blocker)
    \/ \E r \in 1..MaxPhasedOps : PhasedUnlockCall(r)
    \/ PhasedAcquireCall
    \/ \E r \in 1..MaxPhasedOps : PhasedReleaseCall(r)
    \/ AcquireStep
    \/ Grant

SpecPhased == InitPhased /\ [][NextPhased]_vars

\* Whether an acquire() issued now on a lane would suspend: once the call
\* and, if its ticket is resolved, the continuation that runs sem.acquire()
\* have run, some promise joined by Promise.all is still pending.
LaneWouldSuspend(P, C, name) ==
    LET r == Len(C) + 1
        a == LaneAcquire(P, name, r)
        stepped == [a.phased EXCEPT
                      ![name] = PhasedAcquireStep(@, r, a.call.sem)]
    IN  IF a.call.acquired THEN ~AllResolved(a.phased, a.call, r)
        ELSE IF ~TicketResolved(a.phased, a.call) THEN TRUE
        ELSE ~AllResolved(stepped, [a.call EXCEPT !.acquired = TRUE], r)

\* The sum of the pending counts of the runs of a turnstile.
RECURSIVE SumCounts(_)
SumCounts(counts) ==
    IF counts = <<>> THEN 0 ELSE Head(counts) + SumCounts(Tail(counts))

\* The turnstile acquisitions made on lane `name` by lane calls that have not
\* released: one for lock( null ) and one for the ticket of acquire(), if
\* taken, by every call on the lane, and one for the lock( blocker ) of every
\* call on a lane that blocks it.
TicketsHeld(name) ==
    Cardinality({r \in 1..Len(calls) :
                    calls[r].state # "released" /\ calls[r].lane = name})
    + Cardinality({r \in 1..Len(calls) :
                    /\ calls[r].state # "released"
                    /\ calls[r].lane = name
                    /\ calls[r].ticket # NoPromise})
    + Cardinality({r \in 1..Len(calls) :
                    /\ calls[r].state # "released"
                    /\ \E i \in 1..Len(LaneBlocks(calls[r].lane)) :
                           LaneBlocks(calls[r].lane)[i] = name})

\* The calls that hold a unit of generation g of a PhasedSemaphore: their
\* sem.acquire() on g is resolved and they have not released.
GenHolders(P, C, lane, g) ==
    {r \in 1..Len(C) : /\ C[r].lane = lane
                       /\ C[r].sem = g
                       /\ C[r].state # "released"
                       /\ C[r].acquired
                       /\ UnitResolved(P, C[r], r)}

\* =========================================== a StackedSemaphore used alone
\* The keys acquire() is called with.
StackedKeys == {Null, "a", "b"}

InitStacked == InitSemIdle /\ InitAsyncIdle /\ InitKeyedIdle

\* The run a call with `key` belongs to, named by the call that started it:
\* the run of the call before it when that call has the same key and its run
\* still has an acquisition that is not released, a new run otherwise.
RunOf(C, key) ==
    IF /\ C # <<>>
       /\ C[Len(C)].key = key
       /\ \E q \in 1..Len(C) :
              C[q].run = C[Len(C)].run /\ C[q].state # "released"
    THEN C[Len(C)].run
    ELSE Len(C) + 1

\* The continuations of `await this.lastAcquired` that the last block made
\* runnable, in the order the calls were made.
StackedJobs(st, C, J) ==
    LET grt == {r \in 1..Len(C) :
                   /\ C[r].state = "pending"
                   /\ StackedResolved(st, C[r].promise)
                   /\ ~InJobs(J, <<"grant", r>>)}
    IN  [i \in 1..Cardinality(grt) |-> <<"grant", SortedSeq(grt)[i]>>]

\* A task calls acquire( key ).  `took` records that the call acquired the
\* semaphore.
StackedAcquireCall(key) ==
    /\ Len(calls) < MaxStackedOps
    /\ LET r == Len(calls) + 1
           a == StackedAcquire(stacked, key, <<r, "run">>) IN
        /\ stacked' = a.st
        /\ calls' = Append(calls,
               [op |-> "stacked", key |-> key, promise |-> a.promise,
                run |-> RunOf(calls, key),
                took |-> a.st.semaphore # stacked.semaphore,
                freed |-> FALSE, state |-> "pending"])
    /\ jobs' = jobs \o StackedJobs(stacked', calls', jobs)
    /\ UNCHANGED <<semVars, phased, pool>>

\* A task whose acquire() has resolved calls release(), once.  `freed`
\* records that the call released the semaphore.
StackedReleaseCall(r) ==
    /\ r \in 1..Len(calls)
    /\ calls[r].op = "stacked"
    /\ calls[r].state = "granted"
    /\ stacked' = StackedRelease(stacked)
    /\ calls' = [calls EXCEPT
                   ![r].state = "released",
                   ![r].freed = stacked'.semaphore # stacked.semaphore]
    /\ jobs' = jobs \o StackedJobs(stacked', calls', jobs)
    /\ UNCHANGED <<semVars, phased, pool>>

NextStacked ==
    \/ \E key \in StackedKeys : StackedAcquireCall(key)
    \/ \E r \in 1..MaxStackedOps : StackedReleaseCall(r)
    \/ Grant

SpecStacked == InitStacked /\ [][NextStacked]_vars

\* The calls that joined the run started by call x.
RunMembers(x) == {q \in 1..Len(calls) : calls[q].run = x}

\* ========================================================= a SemaphorePool
InitPool ==
    /\ InitSemIdle
    /\ InitAsyncIdle
    /\ stacked = NewStackedSemaphore
    /\ \E count \in 1..MaxCount : \E autoRemove \in BOOLEAN :
           pool = NewSemaphorePool(count, autoRemove)

\* The promise of `semaphore.acquire()` awaited by call r is resolved: its
\* future is not in the queue of the Semaphore the call acquired.
PoolResolved(pl, c, r) ==
    \A i \in 1..Len(pl.sems[c.sem].queue) : pl.sems[c.sem].queue[i] # r

\* The continuations of `await semaphore.acquire()` that the last block made
\* runnable, in the order the calls were made.
PoolJobs(pl, C, J) ==
    LET grt == {r \in 1..Len(C) :
                   /\ C[r].state = "pending"
                   /\ PoolResolved(pl, C[r], r)
                   /\ ~InJobs(J, <<"grant", r>>)}
    IN  [i \in 1..Cardinality(grt) |-> <<"grant", SortedSeq(grt)[i]>>]

\* A task calls acquire( object ).
PoolAcquireCall(object) ==
    /\ Len(calls) < MaxPoolOps
    /\ LET r == Len(calls) + 1
           a == PoolAcquire(pool, object, r) IN
        /\ pool' = a.pool
        /\ calls' = Append(calls, [op |-> "pool", key |-> object,
                                   sem |-> a.semaphore, state |-> "pending"])
    /\ jobs' = jobs \o PoolJobs(pool', calls', jobs)
    /\ UNCHANGED <<semVars, phased, stacked>>

\* A task whose acquire( object ) has resolved calls the release it was
\* given, release( object ), once.
PoolReleaseCall(r) ==
    /\ r \in 1..Len(calls)
    /\ calls[r].op = "pool"
    /\ calls[r].state = "granted"
    /\ pool' = PoolRelease(pool, calls[r].key)
    /\ calls' = [calls EXCEPT ![r].state = "released"]
    /\ jobs' = jobs \o PoolJobs(pool', calls', jobs)
    /\ UNCHANGED <<semVars, phased, stacked>>

NextPool ==
    \/ \E object \in PoolKeys : PoolAcquireCall(object)
    \/ \E r \in 1..MaxPoolOps : PoolReleaseCall(r)
    \/ Grant

SpecPool == InitPool /\ [][NextPool]_vars

\* The calls on an object that hold a unit: their acquire is resolved and
\* they have not released.
PoolHolders(object) ==
    {r \in 1..Len(calls) : /\ calls[r].key = object
                           /\ calls[r].state # "released"
                           /\ PoolResolved(pool, calls[r], r)}

\* ------------------------------------------------- claims on the Semaphore
\* C1: with release called once per grant, the number of acquisitions
\* granted and not yet released never exceeds the capacity.
C1_AtMostNHolders == Cardinality(holders) <= capacity

\* C1 happens: the semaphore is full and a further call is suspended.
C1_Witness == Cardinality(holders) = capacity /\ waiting # {} /\ released # {}

\* C6: suspended calls are granted in the order acquire() was called: no
\* call is granted while a call issued earlier is still waiting.
C6_Fifo == \A g \in granted : \A w \in waiting : g < w

\* C6 happens: a suspended call has been granted by a release while another
\* call is still waiting.
C6_Witness == (granted \cap suspended) # {} /\ waiting # {}

\* C7: once no holder and no waiter remain, count is the capacity again and
\* isLocked is false.
C7_RoundTrip ==
    (issued > 0 /\ holders = {} /\ waiting = {})
        => (sem.count = capacity /\ ~SemaphoreIsLocked(sem))

\* C8: if every grant is eventually released, every acquire() call is
\* eventually granted.
C8_EveryAcquireGranted ==
    \A r \in 1..MaxCalls : (r <= issued) ~> (r \in granted)

\* C9: a release() beyond the grants leaves count, acquired and the queue
\* unchanged, and count never rises above the capacity.
C9_ExtraReleaseRejected ==
    [][(extra' # extra) => (sem' = sem /\ sem'.count <= capacity)]_vars

\* C16: whenever count is negative, its magnitude is the number of waiters in
\* the queue (a hand-off does not count the waiter a second time).
C16_NegativeCountIsWaiters ==
    sem.count < 0 => -sem.count = Len(sem.queue)

\* C21: acquired is 0 exactly when the semaphore has no holder and no queued
\* waiter, so that the test `acquired === 0` is true exactly for an idle
\* semaphore.
C21_AcquiredZeroIffIdle ==
    (sem.acquired = 0) <=> (holders = {} /\ waiting = {})

\* --------------------------------------------------------- claims on use()
\* C11: use( fn ) calls fn only after the acquisition is granted, calls
\* release exactly once whether fn returns or throws, and then yields fn's
\* result or rethrows its error; count and acquired after the calls do not
\* depend on how fn completed (they are a function of the calls not yet
\* completed and of the hand-offs made).
C11_UseReleasesOnce ==
    /\ \A r \in 1..Len(calls) :
        /\ calls[r].state # "acquiring" => r \in granted
        /\ calls[r].releases = (IF calls[r].state = "done" THEN 1 ELSE 0)
        /\ calls[r].settled =
              (IF calls[r].state # "done" THEN "pending"
               ELSE IF calls[r].fn = "return" THEN "value" ELSE "error")
    /\ Cardinality({r \in 1..Len(calls) : calls[r].state = "running"}) <= capacity
    /\ sem.count = capacity
                   - Cardinality({r \in 1..Len(calls) : calls[r].state # "done"})
                   - Cardinality(granted \cap suspended)
    /\ sem.acquired = Cardinality({r \in 1..Len(calls) : calls[r].state # "done"})
                      + Cardinality(granted \cap suspended)

\* C11 happens: a call whose fn returned and calls whose fn threw and was
\* rejected have completed, one of them after having been suspended.
C11_Witness ==
    \E r \in 1..Len(calls) : \E q \in 1..Len(calls) : \E t \in 1..Len(calls) :
        /\ calls[r].state = "done" /\ calls[r].fn = "return"
        /\ calls[q].state = "done" /\ calls[q].fn = "throw"
        /\ calls[t].state = "done" /\ calls[t].fn = "reject"
        /\ {r, q, t} \cap suspended # {}

\* ------------------------------------------ claims on the StackedSemaphore
\* C12: every run of consecutive acquire( k ) calls with the same key
\* acquires the semaphore exactly once, and the semaphore is released exactly
\* once for the run, when and only when every acquisition that joined the run
\* has been released.
C12_RunSharesOneHold ==
    \A x \in 1..Len(calls) :
        calls[x].run = x =>
            /\ Cardinality({q \in RunMembers(x) : calls[q].took}) = 1
            /\ Cardinality({q \in RunMembers(x) : calls[q].freed}) =
                  (IF \A q \in RunMembers(x) : calls[q].state = "released"
                   THEN 1 ELSE 0)

\* C12 happens: a run of three calls has been drained, and a later call has
\* started another run.
C12_Witness ==
    \E x \in 1..Len(calls) :
        /\ calls[x].run = x
        /\ Cardinality(RunMembers(x)) >= 3
        /\ \A q \in RunMembers(x) : calls[q].state = "released"
        /\ \E y \in 1..Len(calls) : calls[y].run > x

\* C13: an acquire() of a run is not granted until every acquisition of
\* every run started before it has been released.
C13_RunsInOrder ==
    \A c \in 1..Len(calls) : \A d \in 1..Len(calls) :
        (calls[d].run < calls[c].run /\ calls[c].state # "pending")
            => calls[d].state = "released"

\* C13 happens: a call with another key is granted after a run of two calls
\* issued before it has been released, while a third run waits.
C13_Witness ==
    \E c \in 1..Len(calls) : \E d \in 1..Len(calls) : \E e \in 1..Len(calls) :
        /\ calls[c].state = "granted"
        /\ calls[d].run < calls[c].run
        /\ Cardinality(RunMembers(calls[d].run)) >= 2
        /\ calls[e].run > calls[c].run
        /\ calls[e].state = "pending"

\* C17: when every other acquisition has been released (all runs drained),
\* an acquire( key ) does not wait: its promise is resolved.
C17_DrainedAcquireImmediate ==
    \A r \in 1..Len(calls) :
        (/\ calls[r].state = "pending"
         /\ \A q \in 1..Len(calls) : q # r => calls[q].state = "released")
            => StackedResolved(stacked, calls[r].promise)

\* --------------------------------------------- claims on the SemaphorePool
\* C14: for every object, the acquisitions granted and not yet released
\* never exceed the count of the pool, and the holders of one object are not
\* counted against another: a call waits only if at least count calls were
\* made before it on its own object.
C14_PerKeyLimit ==
    /\ \A object \in PoolKeys : Cardinality(PoolHolders(object)) <= pool.count
    /\ \A r \in 1..Len(calls) :
           ~PoolResolved(pool, calls[r], r) =>
               Cardinality({q \in 1..(r - 1) : calls[q].key = calls[r].key})
                   >= pool.count

\* C14 happens: both objects have as many granted holders as the pool
\* allows, and a further call on one of them waits.
C14_Witness ==
    /\ \A object \in PoolKeys :
           Cardinality({r \in PoolHolders(object) : calls[r].state = "granted"})
               = pool.count
    /\ \E r \in 1..Len(calls) : ~PoolResolved(pool, calls[r], r)

\* ---------------------------------------- claims on the ReadWriteSemaphore
\* C2: at no instant are a write acquisition and a read acquisition both
\* granted and not yet released.
C2_ReadWriteExclusion == LaneHolders("read") = {} \/ LaneHolders("write") = {}

\* C3: a read requested after a write was requested is never granted before
\* that write is granted.
C3_ReadAfterWrite ==
    \A w \in 1..Len(calls) : \A r \in 1..Len(calls) :
        (/\ calls[w].lane = "write"
         /\ calls[r].lane = "read"
         /\ w < r
         /\ calls[r].state # "pending") => calls[w].state # "pending"

\* C4: if every grant is eventually released, every read or write acquire()
\* that is requested is eventually granted.
C4_EveryRequestGranted ==
    \A r \in 1..MaxOps :
        (Len(calls) >= r) ~> (Len(calls) >= r /\ calls[r].state # "pending")

\* C5: at most one write acquisition is granted and not yet released.
C5_OneWriter == Cardinality(LaneHolders("write")) <= 1

\* C5 happens: a write is held while another write, whose sem.acquire() has
\* run, waits for the unit, and a read has been requested too.
C5_Witness ==
    \E w \in LaneHolders("write") :
        /\ \E v \in 1..Len(calls) :
               /\ calls[v].lane = "write"
               /\ calls[v].state = "pending"
               /\ calls[v].acquired
        /\ \E r \in 1..Len(calls) : calls[r].lane = "read"

\* C15: isLocked of a lane is true in exactly the states in which an
\* acquire() issued now on that lane would suspend.
C15_IsLockedIffSuspends ==
    \A name \in LaneNames :
        (LaneIsLocked(phased, name) = "true")
            <=> LaneWouldSuspend(phased, calls, name)

\* C18: in the turnstile of every lane no pending count is ever negative or
\* undefined (release is never applied to an empty run list), and the pending
\* counts add up to the turnstile acquisitions that are not yet released:
\* every holder releases as many tickets as it took.
C18_TicketsBalanced ==
    \A name \in LaneNames :
        /\ \A i \in 1..Len(phased[name].available.counts) :
               phased[name].available.counts[i] >= 1
        /\ SumCounts(phased[name].available.counts) = TicketsHeld(name)

\* C20: through the lanes, every release() releases a unit of the generation
\* whose unit the releasing holder acquired, and of no other; no generation's
\* acquired ever becomes negative and no generation's count rises above the
\* count of its PhasedSemaphore.
C20_ReleaseSameGeneration ==
    [][/\ \A name \in LaneNames : \A g \in 1..Len(phased'[name].gens) :
              /\ phased'[name].gens[g].acquired >= 0
              /\ phased'[name].gens[g].count <= phased'[name].count
       /\ \A r \in 1..Len(calls) :
              (calls[r].state = "granted" /\ calls'[r].state = "released") =>
                  \A g \in 1..Len(phased[calls[r].lane].gens) :
                      (phased'[calls[r].lane].gens[g]
                          # phased[calls[r].lane].gens[g])
                      <=> g = calls[r].sem]_vars

\* ------------------------------------------- claims on the PhasedSemaphore
\* C19: a PhasedSemaphore always has at least one generation, and when a
\* release() or an unlock() returns, the oldest generation does not have zero
\* holders while a newer generation exists.
C19_IdleGenerationRemoved ==
    [][/\ Len(phased'["phased"].semaphores) >= 1
       /\ (\E r \in 1..Len(calls) :
               calls[r].state = "granted" /\ calls'[r].state = "released")
            => ~(/\ Len(phased'["phased"].semaphores) > 1
                 /\ GenHolders(phased', calls', "phased",
                               phased'["phased"].semaphores[1]) = {})]_vars
\* C10: once lock( b ) is called with a key that is not the current key of
\* the turnstile, the lock does not resolve, and no acquire() issued after it
\* is granted, before every acquire() issued before it has been released.
C10_BlockerFairness ==
    \A k \in 1..Len(calls) :
        (calls[k].op = "lock" /\ calls[k].pushed) =>
            \A a \in 1..(k - 1) :
                (calls[a].op = "acquire" /\ calls[a].state # "released") =>
                    /\ calls[k].state = "pending"
                    /\ \A c \in (k + 1)..Len(calls) :
                           calls[c].op = "acquire" => calls[c].state = "pending"

====
